---- MODULE Spec2Model ----
(***************************************************************************)
(* The swap cycle of the KYVE -> USDC swapper: SwapOrchestrator.executeSwap *)
(* with the services it drives (SkipSwapService, PriceService,              *)
(* TransactionLogger, NotificationService).                                 *)
(*                                                                          *)
(* One action is one continuation of the asynchronous code: what runs from  *)
(* the completion of an I/O request up to the next I/O request.  Numbers    *)
(* that are JavaScript doubles in the source are exact rationals <<n, d>>   *)
(* here (d > 0, lowest terms).  An optional value is <<>> (null, undefined) *)
(* or <<v>>.                                                                *)
(***************************************************************************)
EXTENDS Integers, Sequences, FiniteSets, TLC

\* ------------------------------------------------------------------ bounds
MaxInvocations == 2
MaxTime == 2
MaxLegs == 2
MaxCalls == 2

\* Math.pow(10, 6): micro units per token
Micro == 1000000

\* --------------------------------------------------------------- rationals
Abs(x) == IF x < 0 THEN -x ELSE x

RECURSIVE GCD(_, _)
GCD(a, b) == IF b = 0 THEN a ELSE GCD(b, a % b)

Norm(n, d) ==
  LET g == GCD(Abs(n), d)
  IN  <<n \div g, d \div g>>

R(i) == <<i, 1>>
Zero == R(0)
RLt(a, b) == a[1] * b[2] < b[1] * a[2]
RLe(a, b) == a[1] * b[2] <= b[1] * a[2]
RMul(a, b) == Norm(a[1] * b[1], a[2] * b[2])
RDiv(a, b) == IF b[1] < 0 THEN Norm(-(a[1] * b[2]), a[2] * (-b[1]))
              ELSE Norm(a[1] * b[2], a[2] * b[1])
RSub(a, b) == Norm(a[1] * b[2] - b[1] * a[2], a[2] * b[2])
RAdd(a, b) == Norm(a[1] * b[2] + b[1] * a[2], a[2] * b[2])
\* Math.min, Math.max, Math.floor
MathMin(a, b) == IF RLt(b, a) THEN b ELSE a
MathMax(a, b) == IF RLt(a, b) THEN b ELSE a
MathFloor(a) == R(a[1] \div a[2])

\* ------------------------------------------------------------------ inputs
Invocations == 1..MaxInvocations

\* wallet balances in ukyve (Coin.amount), <<>> when the read fails
Balances == {<<>>, <<0>>, <<400000>>, <<1500000>>, <<3000000>>}
\* USD per KYVE as the price feed answers; <<>> when it answers nothing
Prices == {R(1), R(3)}
PriceAnswers == {<<p>> : p \in Prices} \cup {<<>>}
\* route.amountOut in micro USDC; <<>> is an empty or missing route
RouteAnswers == {<<>>, <<100000>>, <<3000000>>}
\* transfer.toAmount of a successful transfer in a tracking update
TrackedAmounts == {2900000, 2950000}
\* (chainID, txHash) of the transactions the driver reports
TxInfos == {[chainID |-> "kyve-1", txHash |-> "A"], [chainID |-> "8453", txHash |-> "B"]}

\* what the request to CoinGecko can come back with: a price, a body without
\* a price, status 429, any other error
PrimaryAnswers == {<<"price", p>> : p \in Prices} \cup {<<"empty">>, <<"rateLimited">>, <<"error">>}
\* what the request to CoinPaprika can come back with
BackupAnswers == {<<"price", p>> : p \in Prices} \cup {<<"empty">>, <<"error">>}
\* direct callers of getPrice
Callers == 1..MaxCalls

\* swapConfig and config.price, fixed at start-up
Configs ==
  [ minSwapAmountUSD : {1},
    maxSwapAmountUSD : {2},
    swapPercentage   : {50, 100},
    keepReserve      : {0, 1},
    minEffectiveRate : {<<1, 2>>},
    dryRun           : BOOLEAN,
    cacheDuration    : {1} ]

VARIABLES
  config,            \* swapConfig / config.price
  isRunning,         \* SwapOrchestrator.isRunning
  cycle,             \* per executeSwap invocation: position and locals
  transactions,      \* TransactionLogger.transactions (in memory)
  file,              \* data/transactions.json as last written
  cache,             \* PriceService.cache['kyve']: <<>> or <<[price, timestamp]>>
  now,               \* Date.now()
  executePromise,    \* per invocation: the driver's executeRoute promise
  chainTransactions, \* per invocation: the array the driver callbacks fill
  actualAmountOut,   \* per invocation: settled amount seen by onTransactionTracked
  lastEvent,         \* the driver callback that ran last: <<>> or <<kind, invocation,
                     \* argument>>, for onTransactionCompleted with what `existing` was
  csv,               \* data/swap_history.csv: its rows
  loading,           \* TransactionLogger.loadTransactions has not finished
  statistics,        \* what getStatus returned last: <<>> or <<stats>>
  calls,             \* per direct call of PriceService.getPrice('kyve'): position,
                     \* answers of the price sources, requests made, result
  loadFailed         \* loadTransactions of this process has logged
                     \* 'Failed to load transaction history'

vars == <<config, isRunning, cycle, transactions, file, cache, now,
          executePromise, chainTransactions, actualAmountOut, lastEvent,
          csv, loading, statistics, calls, loadFailed>>

\* a call of getPrice that has not been made yet
NewCall ==
  [ pc             |-> "notCalled",
    primary        |-> <<>>,
    backup         |-> <<>>,
    backupRequests |-> 0,
    result         |-> <<>> ]

NewCycle ==
  [ pc            |-> "notStarted",
    balance       |-> <<>>,
    priceResult   |-> <<>>,
    kyvePrice     |-> Zero,
    swapAmount    |-> Zero,
    costBasisUSD  |-> Zero,
    amountIn      |-> <<>>,
    routeOut      |-> <<>>,
    routeCalls    |-> 0,
    executeCalls  |-> 0,
    notifications |-> <<>>,
    delivery      |-> <<>>,
    ledgerAtEntry |-> 0,
    json          |-> <<>>,
    returned      |-> "no",
    outcome       |-> "none" ]

\* the services as their constructors leave them
Constructed ==
  /\ isRunning = FALSE
  /\ cycle = [i \in Invocations |-> NewCycle]
  /\ transactions = <<>>
  /\ file = <<>>
  /\ cache = <<>>
  /\ now = 0
  /\ executePromise = [i \in Invocations |-> "none"]
  /\ chainTransactions = [i \in Invocations |-> <<>>]
  /\ actualAmountOut = [i \in Invocations |-> <<>>]
  /\ lastEvent = <<>>
  /\ csv = <<>>
  /\ loading = FALSE
  /\ statistics = <<>>
  /\ calls = [c \in Callers |-> NewCall]
  /\ loadFailed = FALSE

Init ==
  /\ config \in Configs
  /\ Constructed

\* what the environment can set the trade policy to
EnvConfigs ==
  [ minSwapAmountUSD : {0, 1, 3},
    maxSwapAmountUSD : {2},
    swapPercentage   : {100, 101},
    keepReserve      : {0},
    minEffectiveRate : {<<0, 1>>, <<1, 2>>},
    dryRun           : {FALSE},
    cacheDuration    : {1} ]

\* ConfigSchema.swap: the two amounts positive, the percentage in 0..100, the
\* rate any number
ConfigSchema(swap) ==
  /\ swap.minSwapAmountUSD > 0
  /\ swap.maxSwapAmountUSD > 0
  /\ swap.swapPercentage >= 0 /\ swap.swapPercentage <= 100

\* loadConfig: ConfigSchema.parse throws on a policy it rejects and the
\* process does not start
LoadConfig == {swap \in EnvConfigs : ConfigSchema(swap)}

\* the process starts with whatever policy loadConfig lets through
InitConfig ==
  /\ config \in LoadConfig
  /\ Constructed


\* ------------------------------------------------------------ PriceService
\* mutant: cached prices never expire
Expired_Never(entry) == FALSE

\* getCachedPrice: an entry older than cacheDuration is not served
Expired(entry) == now - entry.timestamp > config.cacheDuration

CachedPrice == IF cache # <<>> /\ ~Expired(cache[1]) THEN <<cache[1].price>> ELSE <<>>

\* getCachedPrice deletes the expired entry it finds
CacheAfterRead == IF cache # <<>> /\ Expired(cache[1]) THEN <<>> ELSE cache

\* getPrice after the fetch: cachePrice on an answer, nothing on null
CacheAfterFetch(answer) ==
  IF answer # <<>> THEN <<[price |-> answer[1], timestamp |-> now]>> ELSE cache

\* calculateCostBasis with the price getPrice gave: 0 without a price
CalculateCostBasis(amount, price) ==
  IF price = <<>> THEN Zero ELSE RMul(RDiv(amount, R(Micro)), price[1])

\* ------------------------------------------------------------------ sizing
\* (swapConfig.minSwapAmountUSD / kyvePrice) * Math.pow(10, 6)
MinAmountMicro(swapConfig, kyvePrice) ==
  RMul(RDiv(R(swapConfig.minSwapAmountUSD), kyvePrice), R(Micro))

\* mutant: the cap is left in whole tokens
MaxAmountMicro_Unscaled(swapConfig, kyvePrice) ==
  RDiv(R(swapConfig.maxSwapAmountUSD), kyvePrice)

\* (swapConfig.maxSwapAmountUSD / kyvePrice) * Math.pow(10, 6)
MaxAmountMicro(swapConfig, kyvePrice) ==
  RMul(RDiv(R(swapConfig.maxSwapAmountUSD), kyvePrice), R(Micro))

\* parseFloat(swapConfig.keepReserve) * Math.pow(10, 6)
KeepReserveMicro(swapConfig) == RMul(R(swapConfig.keepReserve), R(Micro))

\* the percentage rule
PercentageAmount(swapConfig, balanceFloat) ==
  IF swapConfig.swapPercentage < 100
    THEN MathFloor(RMul(balanceFloat, Norm(swapConfig.swapPercentage, 100)))
    ELSE balanceFloat

\* mutant: the reserve is taken off the percentage-reduced amount
ReserveAmount_Compounded(swapConfig, balanceFloat) ==
  IF RLt(Zero, KeepReserveMicro(swapConfig))
    THEN MathMax(Zero, RSub(PercentageAmount(swapConfig, balanceFloat),
                            KeepReserveMicro(swapConfig)))
    ELSE PercentageAmount(swapConfig, balanceFloat)

\* the reserve rule, applied after the percentage rule
ReserveAmount(swapConfig, balanceFloat) ==
  IF RLt(Zero, KeepReserveMicro(swapConfig))
    THEN MathMax(Zero, RSub(balanceFloat, KeepReserveMicro(swapConfig)))
    ELSE PercentageAmount(swapConfig, balanceFloat)

\* mutant: the amount is not capped at the maximum
SwapAmount_Uncapped(swapConfig, balanceFloat, kyvePrice) ==
  ReserveAmount(swapConfig, balanceFloat)

\* swapAmount as it stands before the minimum check
SwapAmount(swapConfig, balanceFloat, kyvePrice) ==
  MathMin(ReserveAmount(swapConfig, balanceFloat), MaxAmountMicro(swapConfig, kyvePrice))

\* mutant: an amount of zero is let through
BelowMinimum_ZeroPasses(swapConfig, swapAmount, kyvePrice) ==
  RLt(swapAmount, MinAmountMicro(swapConfig, kyvePrice)) /\ swapAmount # Zero

\* swapAmount < minAmountMicro
BelowMinimum(swapConfig, swapAmount, kyvePrice) ==
  RLt(swapAmount, MinAmountMicro(swapConfig, kyvePrice))

\* mutant: the rate is compared the wrong way round
RateTooLow_Reversed(swapConfig, estimatedOut, swapAmount) ==
  RLt(swapConfig.minEffectiveRate, RDiv(R(estimatedOut), swapAmount))

\* effectiveRate < swapConfig.minEffectiveRate
RateTooLow(swapConfig, estimatedOut, swapAmount) ==
  RLt(RDiv(R(estimatedOut), swapAmount), swapConfig.minEffectiveRate)

\* --------------------------------------------------------------- the ledger
\* mutant: the record keeps the quoted amount
CompletedTransaction_Estimate(i, c, txHashDefault) ==
  [ id |-> i, fromAmount |-> c.swapAmount, toAmount |-> c.routeOut[1],
    kyvePrice |-> c.kyvePrice, costBasisUSD |-> c.costBasisUSD,
    effectiveRate |-> RDiv(R(c.routeOut[1]), c.swapAmount),
    txHash |-> IF Len(chainTransactions[i]) > 0 THEN chainTransactions[i][1].txHash
               ELSE txHashDefault,
    status |-> "completed", error |-> <<>>, chainTransactions |-> <<i>> ]

\* mutant: the rate on the record is the rate of the rate check
CompletedTransaction_QuotedRate(i, c, txHashDefault) ==
  [ id |-> i, fromAmount |-> c.swapAmount,
    toAmount |-> IF actualAmountOut[i] # <<>> THEN actualAmountOut[i][1] ELSE c.routeOut[1],
    kyvePrice |-> c.kyvePrice, costBasisUSD |-> c.costBasisUSD,
    effectiveRate |-> RDiv(R(c.routeOut[1]), c.swapAmount),
    txHash |-> IF Len(chainTransactions[i]) > 0 THEN chainTransactions[i][1].txHash
               ELSE txHashDefault,
    status |-> "completed", error |-> <<>>, chainTransactions |-> <<i>> ]

\* mutant: the hash is that of the last leg, and empty without legs
CompletedTransaction_LastLeg(i, c, txHashDefault) ==
  [ id |-> i, fromAmount |-> c.swapAmount,
    toAmount |-> IF actualAmountOut[i] # <<>> THEN actualAmountOut[i][1] ELSE c.routeOut[1],
    kyvePrice |-> c.kyvePrice, costBasisUSD |-> c.costBasisUSD,
    effectiveRate |-> RDiv(R(IF actualAmountOut[i] # <<>> THEN actualAmountOut[i][1]
                             ELSE c.routeOut[1]), c.swapAmount),
    txHash |-> IF Len(chainTransactions[i]) > 0
                 THEN chainTransactions[i][Len(chainTransactions[i])].txHash
                 ELSE "",
    status |-> "completed", error |-> <<>>, chainTransactions |-> <<i>> ]

\* the record of the try block, built after skipService.executeSwap returned
CompletedTransaction(i, c, txHashDefault) ==
  LET amountOut == IF actualAmountOut[i] # <<>> THEN actualAmountOut[i][1] ELSE c.routeOut[1]
      legs == chainTransactions[i]
  IN  [ id                |-> i,
        fromAmount        |-> c.swapAmount,
        toAmount          |-> amountOut,
        kyvePrice         |-> c.kyvePrice,
        costBasisUSD      |-> c.costBasisUSD,
        effectiveRate     |-> RDiv(R(amountOut), c.swapAmount),
        txHash            |-> IF Len(legs) > 0 THEN legs[1].txHash ELSE txHashDefault,
        status            |-> "completed",
        error             |-> <<>>,
        chainTransactions |-> <<i>> ]

\* mutant: the record of the catch block drops the message
FailedTransaction_NoError(i, message) ==
  [ id |-> i, fromAmount |-> Zero, toAmount |-> 0, kyvePrice |-> Zero,
    costBasisUSD |-> Zero, effectiveRate |-> Zero, txHash |-> "",
    status |-> "failed", error |-> <<>>, chainTransactions |-> <<>> ]

\* mutant: the record of the catch block is left pending
FailedTransaction_Pending(i, message) ==
  [ id |-> i, fromAmount |-> Zero, toAmount |-> 0, kyvePrice |-> Zero,
    costBasisUSD |-> Zero, effectiveRate |-> Zero, txHash |-> "",
    status |-> "pending", error |-> <<message>>, chainTransactions |-> <<>> ]

\* the record of the catch block
FailedTransaction(i, message) ==
  [ id                |-> i,
    fromAmount        |-> Zero,
    toAmount          |-> 0,
    kyvePrice         |-> Zero,
    costBasisUSD      |-> Zero,
    effectiveRate     |-> Zero,
    txHash            |-> "",
    status            |-> "failed",
    error             |-> <<message>>,
    chainTransactions |-> <<>> ]

\* the legs of a stored record: the array it references, [] when it has none
LegsOf(t) == IF t.chainTransactions = <<>> THEN <<>> ELSE chainTransactions[t.chainTransactions[1]]

\* JSON.stringify(cleanTransactions): the records by value
Stringify(list) ==
  [k \in 1..Len(list) |->
     [list[k] EXCEPT !.chainTransactions =
        IF list[k].chainTransactions = <<>> THEN <<>> ELSE <<LegsOf(list[k])>>]]

\* ------------------------------------------------------------ executeSwap
InCycle(i) == cycle[i].pc \notin {"notStarted", "returned", "exited"}

\* return ...; finally { this.isRunning = false }
\* mutant: a skip returns without passing through the finally block
Return_SkipKeepsFlag(i, c, value, how) ==
  /\ cycle' = [cycle EXCEPT ![i] =
       [NewCycle EXCEPT !.pc = "returned", !.returned = value, !.outcome = how,
                        !.routeCalls = c.routeCalls, !.executeCalls = c.executeCalls,
                        !.notifications = c.notifications,
                        !.ledgerAtEntry = c.ledgerAtEntry]]
  /\ isRunning' = IF value = "null" THEN isRunning ELSE FALSE

\* (the locals of the invocation end with it)
Return(i, c, value, how) ==
  /\ cycle' = [cycle EXCEPT ![i] =
       [NewCycle EXCEPT !.pc = "returned", !.returned = value, !.outcome = how,
                        !.routeCalls = c.routeCalls, !.executeCalls = c.executeCalls,
                        !.notifications = c.notifications,
                        !.ledgerAtEntry = c.ledgerAtEntry]]
  /\ isRunning' = FALSE

\* mutant: the entry check is missing
AlreadyRunning_Never == FALSE

\* if (this.isRunning) return null
AlreadyRunning == isRunning

\* invocations arrive in order
NextToStart(i) == cycle[i].pc = "notStarted" /\ \A j \in 1..(i - 1) : cycle[j].pc # "notStarted"

ExecuteSwap(i) ==
  /\ NextToStart(i)
  /\ IF AlreadyRunning
       THEN /\ cycle' = [cycle EXCEPT ![i].pc = "returned", ![i].returned = "null",
                                      ![i].outcome = "alreadyRunning",
                                      ![i].ledgerAtEntry = Len(transactions)]
            /\ UNCHANGED isRunning
       ELSE /\ isRunning' = TRUE
            /\ cycle' = [cycle EXCEPT ![i].pc = "getKyveBalance",
                                      ![i].ledgerAtEntry = Len(transactions)]
  /\ UNCHANGED <<config, transactions, file, cache, now, executePromise,
                 chainTransactions, actualAmountOut, lastEvent,
                 csv, loading, statistics, calls, loadFailed>>

\* the balance arrives; without one the cycle warns and ends, with one
\* getPrices starts and getPrice('kyve') looks into the cache
BalanceDone(i) ==
  /\ cycle[i].pc = "getKyveBalance"
  /\ \E balance \in Balances :
       IF balance = <<>> \/ balance = <<0>>
         THEN /\ cycle' = [cycle EXCEPT ![i].pc = "notifyNoBalance", ![i].balance = balance,
                             ![i].notifications = Append(@, "warning")]
              /\ UNCHANGED cache
         ELSE /\ cycle' = [cycle EXCEPT ![i].balance = balance,
                             ![i].priceResult = CachedPrice,
                             ![i].pc = IF CachedPrice # <<>> THEN "getPrices" ELSE "fetchPrice"]
              /\ cache' = CacheAfterRead
  /\ UNCHANGED <<config, isRunning, transactions, file, now, executePromise,
                 chainTransactions, actualAmountOut, lastEvent,
                 csv, loading, statistics, calls, loadFailed>>

\* getPrice('kyve') of getPrices: the feed answers (or fails: null)
FetchPriceDone(i) ==
  /\ cycle[i].pc = "fetchPrice"
  /\ \E answer \in PriceAnswers :
       /\ cache' = CacheAfterFetch(answer)
       /\ cycle' = [cycle EXCEPT ![i].pc = "getPrices", ![i].priceResult = answer]
  /\ UNCHANGED <<config, isRunning, transactions, file, now, executePromise,
                 chainTransactions, actualAmountOut, lastEvent,
                 csv, loading, statistics, calls, loadFailed>>

\* the cycle after calculateCostBasis: the route request goes out
RequestRoute(c, costBasisUSD) ==
  [c EXCEPT !.costBasisUSD = costBasisUSD, !.amountIn = <<c.swapAmount>>,
            !.routeCalls = @ + 1, !.pc = "getRoute"]

\* mutant: a missing price is taken as 1, as for 'usdc'
KyvePrice_DefaultsToOne(priceResult) == IF priceResult = <<>> THEN R(1) ELSE priceResult[1]

\* prices.get('kyve')?.price || 0
KyvePrice(priceResult) == IF priceResult = <<>> THEN Zero ELSE priceResult[1]

\* Promise.all of getPrices settles (the 'usdc' lookup is done too): sizing,
\* then calculateCostBasis looks the price up again
PricesDone(i) ==
  /\ cycle[i].pc = "getPrices"
  /\ LET c == cycle[i]
         kyvePrice == KyvePrice(c.priceResult)
         swapAmount == SwapAmount(config, R(c.balance[1]), kyvePrice)
         sized == [c EXCEPT !.kyvePrice = kyvePrice, !.swapAmount = swapAmount]
     IN  IF kyvePrice = Zero
           THEN /\ Return(i, c, "null", "noPrice")
                /\ UNCHANGED cache
           ELSE IF BelowMinimum(config, swapAmount, kyvePrice)
             THEN /\ Return(i, sized, "null", "belowMinimum")
                  /\ UNCHANGED cache
             ELSE /\ cache' = CacheAfterRead
                  /\ cycle' = [cycle EXCEPT ![i] =
                       IF CachedPrice # <<>>
                         THEN RequestRoute(sized, CalculateCostBasis(swapAmount, CachedPrice))
                         ELSE [sized EXCEPT !.pc = "fetchCostBasisPrice"]]
                  /\ UNCHANGED isRunning
  /\ UNCHANGED <<config, transactions, file, now, executePromise,
                 chainTransactions, actualAmountOut, lastEvent,
                 csv, loading, statistics, calls, loadFailed>>

\* getPrice('kyve') of calculateCostBasis: the feed answers (or fails: null)
FetchCostBasisPriceDone(i) ==
  /\ cycle[i].pc = "fetchCostBasisPrice"
  /\ \E answer \in PriceAnswers :
       /\ cache' = CacheAfterFetch(answer)
       /\ cycle' = [cycle EXCEPT ![i] =
            RequestRoute(cycle[i], CalculateCostBasis(cycle[i].swapAmount, answer))]
  /\ UNCHANGED <<config, isRunning, transactions, file, now, executePromise,
                 chainTransactions, actualAmountOut, lastEvent,
                 csv, loading, statistics, calls, loadFailed>>

\* Date.now() moves on between two continuations; the clock is read only
\* against the timestamp of a cached price, so it is left alone while the
\* cache is empty
Tick ==
  /\ now < MaxTime
  /\ cache # <<>>
  /\ now' = now + 1
  /\ UNCHANGED <<config, isRunning, cycle, transactions, file, cache,
                 executePromise, chainTransactions, actualAmountOut, lastEvent,
                 csv, loading, statistics, calls, loadFailed>>


\* mutant: the catch block only reports the error
Catch_NoRecord(i, c, message) ==
  /\ UNCHANGED transactions
  /\ cycle' = [cycle EXCEPT ![i] = [c EXCEPT !.pc = "logFailed", !.json = <<Stringify(transactions)>>]]

\* the catch block: a failed record is built and logged
Catch(i, c, message) ==
  /\ transactions' = Append(transactions, FailedTransaction(i, message))
  /\ cycle' = [cycle EXCEPT ![i] =
       [c EXCEPT !.pc = "logFailed",
                 !.json = <<Stringify(Append(transactions, FailedTransaction(i, message)))>>]]

\* mutant: the success is announced without a record
Succeed_Unlogged(i, c, txHashDefault) ==
  /\ UNCHANGED transactions
  /\ cycle' = [cycle EXCEPT ![i] = [c EXCEPT !.pc = "logSuccess", !.json = <<Stringify(transactions)>>]]

\* the try block after skipService.executeSwap returned its result
Succeed(i, c, txHashDefault) ==
  /\ transactions' = Append(transactions, CompletedTransaction(i, c, txHashDefault))
  /\ cycle' = [cycle EXCEPT ![i] =
       [c EXCEPT !.pc = "logSuccess",
                 !.json = <<Stringify(Append(transactions,
                                             CompletedTransaction(i, c, txHashDefault)))>>]]

\* mutant: the rejected quote is logged as a failed swap
CancelRateTooLow_Logged(i, c) ==
  /\ transactions' = Append(transactions, FailedTransaction(i, "Rate too low"))
  /\ cycle' = [cycle EXCEPT ![i] =
       [c EXCEPT !.pc = "notifyRateTooLow", !.notifications = Append(@, "warning")]]

\* the rate check fails: a warning goes out, nothing is logged
CancelRateTooLow(i, c) ==
  /\ cycle' = [cycle EXCEPT ![i] =
       [c EXCEPT !.pc = "notifyRateTooLow", !.notifications = Append(@, "warning")]]
  /\ UNCHANGED transactions

\* skipService.getRoute answers: no route throws; a route is rate-checked and
\* then executed (a dry run returns at once, a real run starts the driver and
\* the deadline timer)
RouteDone(i) ==
  /\ cycle[i].pc = "getRoute"
  /\ \E route \in RouteAnswers :
       LET c == [cycle[i] EXCEPT !.routeOut = route]
       IN  IF route = <<>>
             THEN /\ Catch(i, c, "No route found for swap")
                  /\ UNCHANGED <<executePromise>>
             ELSE IF RateTooLow(config, route[1], c.swapAmount)
               THEN /\ CancelRateTooLow(i, c)
                    /\ UNCHANGED <<executePromise>>
               ELSE IF config.dryRun
                 THEN /\ Succeed(i, [c EXCEPT !.executeCalls = @ + 1], "DRY_RUN_TX")
                      /\ UNCHANGED <<executePromise>>
                 ELSE /\ cycle' = [cycle EXCEPT ![i] =
                           [c EXCEPT !.pc = "executing", !.executeCalls = @ + 1]]
                      /\ executePromise' = [executePromise EXCEPT ![i] = "pending"]
                      /\ UNCHANGED <<transactions>>
  /\ UNCHANGED <<config, isRunning, file, cache, now, chainTransactions, actualAmountOut, lastEvent,
                 csv, loading, statistics, calls, loadFailed>>

\* the callbacks handed to executeRoute stay with the driver: nothing takes
\* them back or makes them ignore an event once the race has been decided
DriverActive(i) == executePromise[i] # "none"

\* onTransactionBroadcast: the transaction is pushed
OnTransactionBroadcast(i) ==
  /\ DriverActive(i)
  /\ Len(chainTransactions[i]) < MaxLegs
  /\ \E txInfo \in TxInfos :
       /\ chainTransactions' = [chainTransactions EXCEPT ![i] =
            Append(@, [chainId |-> txInfo.chainID, txHash |-> txInfo.txHash,
                       status |-> "broadcast"])]
       /\ lastEvent' = <<"broadcast", i, txInfo>>
  /\ UNCHANGED <<config, isRunning, cycle, transactions, file, cache, now,
                 executePromise, actualAmountOut,
                 csv, loading, statistics, calls, loadFailed>>

\* mutant: the lookup never finds the transaction
Find_Never(legs, txInfo) == 0

\* chainTransactions.find(...) of onTransactionCompleted: index of the first match, 0 if none
Find(legs, txInfo) ==
  LET hits == {k \in 1..Len(legs) :
                 legs[k].chainId = txInfo.chainID /\ legs[k].txHash = txInfo.txHash}
  IN  IF hits = {} THEN 0 ELSE CHOOSE k \in hits : \A m \in hits : k <= m

\* onTransactionCompleted: the first leg with that chain and hash is updated,
\* a new one is pushed when there is none
OnTransactionCompleted(i) ==
  /\ DriverActive(i)
  /\ \E txInfo \in TxInfos :
       LET legs == chainTransactions[i]
           existing == Find(legs, txInfo)
       IN  /\ IF existing # 0
                THEN chainTransactions' = [chainTransactions EXCEPT ![i][existing].status = "completed"]
                ELSE /\ Len(legs) < MaxLegs
                     /\ chainTransactions' = [chainTransactions EXCEPT ![i] =
                          Append(@, [chainId |-> txInfo.chainID, txHash |-> txInfo.txHash,
                                     status |-> "completed"])]
           /\ lastEvent' = <<"completed", i, txInfo,
                             IF existing # 0 THEN legs[existing].status ELSE "none">>
  /\ UNCHANGED <<config, isRunning, cycle, transactions, file, cache, now,
                 executePromise, actualAmountOut,
                 csv, loading, statistics, calls, loadFailed>>

\* onTransactionTracked with a successful transfer carrying toAmount
OnTransactionTracked(i) ==
  /\ DriverActive(i)
  /\ \E toAmount \in TrackedAmounts :
       /\ actualAmountOut' = [actualAmountOut EXCEPT ![i] = <<toAmount>>]
       /\ lastEvent' = <<"tracked", i, toAmount>>
  /\ UNCHANGED <<config, isRunning, cycle, transactions, file, cache, now,
                 executePromise, chainTransactions,
                 csv, loading, statistics, calls, loadFailed>>

\* mutant: the result of executeRoute is taken whenever it comes
ExecuteResolved_AfterDeadline(i) ==
  /\ executePromise[i] = "pending"
  /\ executePromise' = [executePromise EXCEPT ![i] = "resolved"]
  /\ cycle[i].pc \in {"executing", "logFailed", "notifyFailed"}
  /\ Succeed(i, cycle[i], "PENDING")
  /\ UNCHANGED <<config, isRunning, file, cache, now, chainTransactions, actualAmountOut, lastEvent,
                 csv, loading, statistics, calls, loadFailed>>

\* executeRoute resolves: it wins the race when the cycle still waits for it
ExecuteResolved(i) ==
  /\ executePromise[i] = "pending"
  /\ executePromise' = [executePromise EXCEPT ![i] = "resolved"]
  /\ IF cycle[i].pc = "executing"
       THEN Succeed(i, cycle[i], "PENDING")
       ELSE UNCHANGED <<cycle, transactions>>
  /\ UNCHANGED <<config, isRunning, file, cache, now, chainTransactions, actualAmountOut, lastEvent,
                 csv, loading, statistics, calls, loadFailed>>

\* executeRoute rejects: the error is rethrown into the catch block
ExecuteRejected(i) ==
  /\ executePromise[i] = "pending"
  /\ executePromise' = [executePromise EXCEPT ![i] = "rejected"]
  /\ IF cycle[i].pc = "executing"
       THEN Catch(i, cycle[i], "execution error")
       ELSE UNCHANGED <<cycle, transactions>>
  /\ UNCHANGED <<config, isRunning, file, cache, now, chainTransactions, actualAmountOut, lastEvent,
                 csv, loading, statistics, calls, loadFailed>>

\* the deadline timer fires first: timeoutPromise rejects, the driver runs on
Timeout(i) ==
  /\ cycle[i].pc = "executing"
  /\ executePromise[i] = "pending"
  /\ Catch(i, cycle[i], "Swap execution timed out")
  /\ UNCHANGED <<config, isRunning, file, cache, now, executePromise,
                 chainTransactions, actualAmountOut, lastEvent,
                 csv, loading, statistics, calls, loadFailed>>

\* appendToCSV: the row written for a transaction
HistoryRow(t) == [format |-> "history", id |-> t.id, status |-> t.status]

\* logTransaction finishes: saveTransactions has written the file (the write
\* may fail, which saveTransactions only logs) and appendToCSV has added the row
\* of the transaction to data/swap_history.csv; the outcome is then announced
LogDone(i) ==
  /\ cycle[i].pc \in {"logSuccess", "logFailed"}
  /\ \E written \in BOOLEAN :
       file' = IF written THEN cycle[i].json[1] ELSE file
  /\ LET json == cycle[i].json[1]
     IN  csv' = IF json = <<>> THEN csv ELSE Append(csv, HistoryRow(json[Len(json)]))
  /\ cycle' = [cycle EXCEPT
       ![i].json = <<>>,
       ![i].pc = IF cycle[i].pc = "logSuccess" THEN "notifySuccess" ELSE "notifyFailed",
       ![i].notifications = Append(@, IF cycle[i].pc = "logSuccess" THEN "success" ELSE "error")]
  /\ UNCHANGED <<config, isRunning, transactions, cache, now, executePromise,
                 chainTransactions, actualAmountOut, lastEvent,
                 loading, statistics, calls, loadFailed>>

\* a request of sendNotification to Discord or Telegram fails: the channel's
\* own catch block logs it
DeliveryFailed(i) ==
  /\ cycle[i].pc \in {"notifyNoBalance", "notifyRateTooLow", "notifySuccess", "notifyFailed"}
  /\ cycle[i].delivery = <<>>
  /\ cycle' = [cycle EXCEPT ![i].delivery = <<FALSE>>]
  /\ UNCHANGED <<config, isRunning, transactions, file, cache, now, executePromise,
                 chainTransactions, actualAmountOut, lastEvent,
                 csv, loading, statistics, calls, loadFailed>>

\* mutant: a failed cycle returns null
NotifyDone_FailedReturnsNull(i) ==
  /\ cycle[i].pc \in {"notifyNoBalance", "notifyRateTooLow", "notifySuccess", "notifyFailed"}
  /\ LET pc == cycle[i].pc
     IN  Return(i, cycle[i],
                IF pc = "notifySuccess" THEN "transaction" ELSE "null",
                CASE pc = "notifyNoBalance" -> "noBalance"
                  [] pc = "notifyRateTooLow" -> "rateTooLow"
                  [] pc = "notifySuccess" -> "success"
                  [] OTHER -> "failed")
  /\ UNCHANGED <<config, transactions, file, cache, now, executePromise,
                 chainTransactions, actualAmountOut, lastEvent,
                 csv, loading, statistics, calls, loadFailed>>

\* mutant: sendNotification rejects whenever it is awaited
SendNotification_AlwaysRejects(delivered) == "rejected"

\* mutant: a request that fails rejects the promise of sendNotification
SendNotification_Rejects(delivered) == IF delivered THEN "resolved" ELSE "rejected"

\* sendNotification: each channel catches its own errors and the channels are
\* awaited with Promise.allSettled, so the promise resolves either way
SendNotification(delivered) == "resolved"

\* ------------------------------------------- PriceService, called directly
\* mutant: every failure of the primary source goes to the fallback
FetchPriceFromCoinGecko_AlwaysFallsBack(answer) ==
  CASE answer[1] = "price" -> <<"return", <<answer[2]>>>>
    [] answer[1] = "empty" -> <<"return", <<>>>>
    [] OTHER -> <<"backup">>

\* fetchPriceFromCoinGecko once its request has settled: the price, null for
\* a body without one, the fallback on status 429, the error thrown otherwise
FetchPriceFromCoinGecko(answer) ==
  CASE answer[1] = "price" -> <<"return", <<answer[2]>>>>
    [] answer[1] = "empty" -> <<"return", <<>>>>
    [] answer[1] = "rateLimited" -> <<"backup">>
    [] OTHER -> <<"throw">>

\* fetchPriceFromBackup once its request has settled: the price, or null for
\* a body without one and for any error
FetchPriceFromBackup(answer) ==
  IF answer[1] = "price" THEN <<answer[2]>> ELSE <<>>

\* getPrice is called: a cached price that has not expired is returned at
\* once; otherwise an expired entry is deleted and the request to CoinGecko
\* goes out
GetPrice(c) ==
  /\ calls[c].pc = "notCalled"
  /\ IF CachedPrice # <<>>
       THEN /\ calls' = [calls EXCEPT ![c].pc = "returned", ![c].result = CachedPrice]
            /\ UNCHANGED cache
       ELSE /\ calls' = [calls EXCEPT ![c].pc = "primary"]
            /\ cache' = CacheAfterRead
  /\ UNCHANGED <<config, isRunning, cycle, transactions, file, now, executePromise,
                 chainTransactions, actualAmountOut, lastEvent, csv, loading,
                 statistics, loadFailed>>

\* the request to CoinGecko settles; getPrice caches and returns a price,
\* returns null without one, and its catch block turns a thrown error into
\* null; on status 429 the request to CoinPaprika goes out
PrimaryDone(c) ==
  /\ calls[c].pc = "primary"
  /\ \E answer \in PrimaryAnswers :
       LET fetched == FetchPriceFromCoinGecko(answer)
       IN  CASE fetched[1] = "return" ->
                  /\ calls' = [calls EXCEPT ![c].pc = "returned", ![c].primary = answer,
                                            ![c].result = fetched[2]]
                  /\ cache' = CacheAfterFetch(fetched[2])
             [] fetched[1] = "backup" ->
                  /\ calls' = [calls EXCEPT ![c].pc = "backup", ![c].primary = answer,
                                            ![c].backupRequests = @ + 1]
                  /\ UNCHANGED cache
             [] OTHER ->
                  /\ calls' = [calls EXCEPT ![c].pc = "returned", ![c].primary = answer,
                                            ![c].result = <<>>]
                  /\ UNCHANGED cache
  /\ UNCHANGED <<config, isRunning, cycle, transactions, file, now, executePromise,
                 chainTransactions, actualAmountOut, lastEvent, csv, loading,
                 statistics, loadFailed>>

\* the request to CoinPaprika settles and getPrice goes on with what
\* fetchPriceFromBackup returns
BackupDone(c) ==
  /\ calls[c].pc = "backup"
  /\ \E answer \in BackupAnswers :
       /\ calls' = [calls EXCEPT ![c].pc = "returned", ![c].backup = answer,
                                 ![c].result = FetchPriceFromBackup(answer)]
       /\ cache' = CacheAfterFetch(FetchPriceFromBackup(answer))
  /\ UNCHANGED <<config, isRunning, cycle, transactions, file, now, executePromise,
                 chainTransactions, actualAmountOut, lastEvent, csv, loading,
                 statistics, loadFailed>>

\* ------------------------------------------------------ TransactionLogger
\* mutant: every record counts as successful
GetSuccessfulTransactions_All(list) == list

\* getSuccessfulTransactions: filter(tx => tx.status === 'completed')
GetSuccessfulTransactions(list) == SelectSeq(list, LAMBDA t : t.status = "completed")

\* reduce((sum, tx) => sum + f(tx), 0)
RECURSIVE Reduce(_, _, _)
Reduce(list, field, sum) ==
  IF list = <<>> THEN sum
  ELSE Reduce(Tail(list), field, RAdd(sum, Head(list)[field]))

\* getTotalVolumeUSD
GetTotalVolumeUSD(list) == Reduce(GetSuccessfulTransactions(list), "costBasisUSD", Zero)

\* getAverageRate
GetAverageRate(list) ==
  LET successful == GetSuccessfulTransactions(list)
  IN  IF Len(successful) = 0 THEN Zero
      ELSE RDiv(Reduce(successful, "effectiveRate", Zero), R(Len(successful)))

\* mutant: the export takes every record
ExportRecords_All(list) ==
  [k \in 1..Len(list) |->
     [format |-> "export", id |-> list[k].id, status |-> list[k].status]]

\* exportToCSV: the rows made of the completed records
ExportRecords(list) ==
  LET completed == SelectSeq(list, LAMBDA t : t.status = "completed")
  IN  [k \in 1..Len(completed) |->
         [format |-> "export", id |-> completed[k].id, status |-> completed[k].status]]

\* exportToCSV() without a file name, as the shutdown handler, `once` and
\* `export` call it: a writer that does not append replaces
\* data/swap_history.csv with the exported rows (a failed write throws and is
\* a step that changes nothing)
ExportToCSV ==
  /\ csv' = ExportRecords(transactions)
  /\ UNCHANGED <<config, isRunning, cycle, transactions, file, cache, now,
                 executePromise, chainTransactions, actualAmountOut, lastEvent,
                 loading, statistics, calls, loadFailed>>

\* getStatus, once the balances have arrived: the statistics of the ledger
GetStatus ==
  /\ statistics' = <<[ totalTransactions      |-> Len(transactions),
                       successfulTransactions |-> Len(GetSuccessfulTransactions(transactions)),
                       totalVolumeUSD         |-> GetTotalVolumeUSD(transactions),
                       averageRate            |-> GetAverageRate(transactions) ]>>
  /\ UNCHANGED <<config, isRunning, cycle, transactions, file, cache, now,
                 executePromise, chainTransactions, actualAmountOut, lastEvent,
                 csv, loading, calls, loadFailed>>

\* JSON.parse of the file: the records with arrays of their own
Parse(data) ==
  [k \in 1..Len(data) |->
     [data[k] EXCEPT !.chainTransactions =
        IF data[k].chainTransactions = <<>> THEN <<>> ELSE <<data[k].id>>]]

\* the arrays of the parsed records
ParsedLegs(data) ==
  [i \in Invocations |->
     IF \E k \in 1..Len(data) : data[k].id = i /\ data[k].chainTransactions # <<>>
       THEN LET k == CHOOSE k \in 1..Len(data) :
                       data[k].id = i /\ data[k].chainTransactions # <<>>
            IN  data[k].chainTransactions[1]
       ELSE chainTransactions[i]]

\* the process exits (process.exit after a signal, `once` or a crash) and is
\* started again: what was in memory is gone, the files stay, and the
\* constructor of TransactionLogger starts loadTransactions without awaiting it
Restart ==
  /\ isRunning' = FALSE
  /\ cycle' = [i \in Invocations |->
                IF InCycle(i) THEN [NewCycle EXCEPT !.pc = "exited"] ELSE cycle[i]]
  /\ transactions' = <<>>
  /\ cache' = <<>>
  /\ executePromise' = [i \in Invocations |-> "none"]
  /\ chainTransactions' = [i \in Invocations |-> <<>>]
  /\ actualAmountOut' = [i \in Invocations |-> <<>>]
  /\ lastEvent' = <<>>
  /\ statistics' = <<>>
  /\ loading' = TRUE
  /\ loadFailed' = FALSE
  /\ UNCHANGED <<config, file, now, csv, calls>>

\* the SIGINT/SIGTERM handler: the history is exported and the status read,
\* then process.exit(0) ends the process whatever executeSwap is doing; the
\* process is started again later
Shutdown ==
  /\ csv' = ExportRecords(transactions)
  /\ isRunning' = FALSE
  /\ cycle' = [i \in Invocations |->
                IF InCycle(i) THEN [NewCycle EXCEPT !.pc = "exited"] ELSE cycle[i]]
  /\ transactions' = <<>>
  /\ cache' = <<>>
  /\ executePromise' = [i \in Invocations |-> "none"]
  /\ chainTransactions' = [i \in Invocations |-> <<>>]
  /\ actualAmountOut' = [i \in Invocations |-> <<>>]
  /\ lastEvent' = <<>>
  /\ statistics' = <<>>
  /\ loading' = TRUE
  /\ loadFailed' = FALSE
  /\ UNCHANGED <<config, file, now, calls>>

\* loadTransactions continues after readFile: the parsed file replaces the
\* list in memory; a file that cannot be read or parsed is only logged
LoadDone ==
  /\ loading
  /\ loading' = FALSE
  /\ \E parsed \in BOOLEAN :
       /\ loadFailed' = ~parsed
       /\ IF parsed
            THEN /\ transactions' = Parse(file)
                 /\ chainTransactions' = ParsedLegs(file)
            ELSE UNCHANGED <<transactions, chainTransactions>>
  /\ UNCHANGED <<config, isRunning, cycle, file, cache, now, executePromise,
                 actualAmountOut, lastEvent, csv, statistics, calls>>

\* await sendNotification(...) continues once the requests have settled,
\* delivered unless one has failed, and the cycle returns; a rejection inside the try block would be caught and
\* recorded as a failed swap, one inside the catch block would leave
\* executeSwap through finally
NotifyDone(i) ==
  /\ cycle[i].pc \in {"notifyNoBalance", "notifyRateTooLow", "notifySuccess", "notifyFailed"}
  /\ LET pc == cycle[i].pc
         c  == [cycle[i] EXCEPT !.delivery = <<>>]
     IN  IF SendNotification(cycle[i].delivery = <<>>) = "resolved"
           THEN /\ Return(i, c,
                          IF pc \in {"notifySuccess", "notifyFailed"}
                            THEN "transaction" ELSE "null",
                          CASE pc = "notifyNoBalance" -> "noBalance"
                            [] pc = "notifyRateTooLow" -> "rateTooLow"
                            [] pc = "notifySuccess" -> "success"
                            [] OTHER -> "failed")
                /\ UNCHANGED transactions
           ELSE IF pc = "notifyFailed"
             THEN /\ Return(i, c, "threw", "failed")
                  /\ UNCHANGED transactions
             ELSE /\ Catch(i, c, "notification failed")
                  /\ UNCHANGED isRunning
  /\ UNCHANGED <<config, file, cache, now, executePromise,
                 chainTransactions, actualAmountOut, lastEvent,
                 csv, loading, statistics, calls, loadFailed>>

\* one continuation of a running cycle
CycleStep(i) ==
  \/ BalanceDone(i)
  \/ FetchPriceDone(i)
  \/ PricesDone(i)
  \/ FetchCostBasisPriceDone(i)
  \/ RouteDone(i)
  \/ ExecuteResolved(i)
  \/ ExecuteRejected(i)
  \/ Timeout(i)
  \/ LogDone(i)
  \/ DeliveryFailed(i)
  \/ NotifyDone(i)

\* what the driver reports while executeRoute runs
DriverEvent(i) ==
  \/ OnTransactionBroadcast(i)
  \/ OnTransactionCompleted(i)
  \/ OnTransactionTracked(i)

\* the scheduler and the start-up run invoke executeSwap again and again
Next ==
  \/ \E i \in Invocations : ExecuteSwap(i)
  \/ \E i \in Invocations : CycleStep(i)
  \/ Tick

Spec == Init /\ [][Next]_vars

\* with a single cycle the clock is read for the last time when the price
\* for the cost basis is looked up
TickWhilePricing ==
  /\ \E i \in Invocations : cycle[i].pc \in {"getKyveBalance", "fetchPrice", "getPrices"}
  /\ Tick

\* one cycle with the driver reporting its transactions
NextExecution ==
  \/ ExecuteSwap(1)
  \/ \E i \in Invocations : CycleStep(i)
  \/ \E i \in Invocations : DriverEvent(i)
  \/ TickWhilePricing

\* the driver is watched under the default sizing policy: the whole balance,
\* no reserve
InitExecution ==
  /\ Init
  /\ config.swapPercentage = 100
  /\ config.keepReserve = 0

SpecExecution == InitExecution /\ [][NextExecution]_vars


\* one cycle with the clock running against the price cache
NextPrice ==
  \/ ExecuteSwap(1)
  \/ \E i \in Invocations : CycleStep(i)
  \/ Tick

SpecPrice == Init /\ [][NextPrice]_vars

\* one cycle with the deadline timer: setTimeout runs its callback once the
\* delay has passed, whether or not executeRoute settles
SpecDeadline ==
  /\ Init
  /\ [][NextPrice]_vars
  /\ \A i \in Invocations : WF_vars(Timeout(i))


\* the ledger is watched with real swaps under the default sizing policy
InitLedger ==
  /\ InitExecution
  /\ ~config.dryRun

\* the ledger over the life of its file: cycles and restarts of the process
NextLedger ==
  \/ \E i \in Invocations : ExecuteSwap(i)
  \/ \E i \in Invocations : CycleStep(i)
  \/ TickWhilePricing
  \/ Restart
  \/ LoadDone

SpecLedger == InitLedger /\ [][NextLedger]_vars

\* cycles of a process that is stopped by a signal and started again
NextShutdown ==
  \/ \E i \in Invocations : ExecuteSwap(i)
  \/ \E i \in Invocations : CycleStep(i)
  \/ TickWhilePricing
  \/ Shutdown
  \/ LoadDone

SpecShutdown == InitLedger /\ [][NextShutdown]_vars

\* cycles with exports of the history in between
NextExport ==
  \/ \E i \in Invocations : ExecuteSwap(i)
  \/ \E i \in Invocations : CycleStep(i)
  \/ TickWhilePricing
  \/ ExportToCSV

SpecExport == InitLedger /\ [][NextExport]_vars

\* cycles with status queries in between
NextStatus ==
  \/ \E i \in Invocations : ExecuteSwap(i)
  \/ \E i \in Invocations : CycleStep(i)
  \/ TickWhilePricing
  \/ GetStatus

SpecStatus == InitLedger /\ [][NextStatus]_vars

\* getPrice called directly, one call after or during another, with the clock
\* running
NextGetPrice ==
  \/ \E c \in Callers : GetPrice(c)
  \/ \E c \in Callers : PrimaryDone(c)
  \/ \E c \in Callers : BackupDone(c)
  \/ Tick

SpecGetPrice == Init /\ [][NextGetPrice]_vars

\* one cycle under any policy that loadConfig accepts
SpecConfig == InitConfig /\ [][NextPrice]_vars

\* ================================================================== claims
\* the records a cycle has in the ledger, in memory and in the file
RecordsOf(i) == {k \in 1..Len(transactions) : transactions[k].id = i}
FileRecordsOf(i) == {k \in 1..Len(file) : file[k].id = i}

\* invocation i is accepted or rejected in this step
Invoked(i) == cycle[i].pc = "notStarted" /\ cycle'[i].pc # "notStarted"
\* invocation i returns in this step
Returns(i) == cycle[i].pc # "returned" /\ cycle'[i].pc = "returned"

PolicySkips == {"noBalance", "belowMinimum", "rateTooLow"}

\* C1: an executeSwap invoked while an earlier one has not returned returns null
\* in the same step, appends no record, sends no notification and makes no
\* balance, price, route or execution call (nothing but its own return changes);
\* never are two cycles between Sizing and Executing at once.
C1_SingleFlight ==
  /\ [](Cardinality({i \in Invocations : InCycle(i)}) <= 1)
  /\ [][\A i \in Invocations :
          (Invoked(i) /\ \E j \in Invocations : j # i /\ InCycle(j)) =>
            /\ cycle'[i].pc = "returned"
            /\ cycle'[i].returned = "null"
            /\ cycle'[i].notifications = <<>>
            /\ cycle'[i].routeCalls = 0
            /\ cycle'[i].executeCalls = 0
            /\ \A j \in Invocations : j # i => cycle'[j] = cycle[j]
            /\ UNCHANGED <<isRunning, transactions, file, cache, executePromise,
                           chainTransactions, actualAmountOut>>]_vars

C1_Witness ==
  /\ cycle[1].pc = "executing"
  /\ cycle[2].pc = "returned"
  /\ cycle[2].outcome = "alreadyRunning"

\* C2: isRunning is true exactly while a cycle is between its entry and its
\* return, whatever the exit path; an invocation is rejected as already running
\* only while another cycle has not returned.
C2_FlagReleased ==
  /\ [](isRunning <=> \E i \in Invocations : InCycle(i))
  /\ [][\A i \in Invocations :
          (Invoked(i) /\ cycle'[i].outcome = "alreadyRunning") =>
            \E j \in Invocations : j # i /\ InCycle(j)]_vars

C2_Witness ==
  /\ cycle[1].pc = "returned"
  /\ cycle[1].outcome = "belowMinimum"
  /\ cycle[2].pc = "getKyveBalance"
  /\ isRunning

\* C3 as stated: one record for every cycle that made a route request, none
\* for a cycle that made none.
C3_OneRecordFromQuoting ==
  \A i \in Invocations :
    cycle[i].pc = "returned" =>
      Cardinality(RecordsOf(i)) = IF cycle[i].routeCalls > 0 THEN 1 ELSE 0

\* C3 amended: a returned cycle has exactly one record when its route request
\* failed or it invoked the Execution Driver, and none when it ended during
\* Sizing or at the rate check; no cycle ever has more than one.
C3_OneRecordPerAttempt ==
  \A i \in Invocations :
    /\ Cardinality(RecordsOf(i)) <= 1
    /\ cycle[i].pc = "returned" =>
         /\ cycle[i].executeCalls > 0 => Cardinality(RecordsOf(i)) = 1
         /\ (cycle[i].routeCalls > 0 /\ cycle[i].outcome = "failed")
              => Cardinality(RecordsOf(i)) = 1
         /\ cycle[i].outcome \in {"noBalance", "noPrice", "belowMinimum", "rateTooLow"}
              => RecordsOf(i) = {}
         /\ cycle[i].outcome \in {"noBalance", "noPrice", "belowMinimum", "rateTooLow",
                                  "alreadyRunning", "success", "failed"}
         /\ cycle[i].outcome = "failed" => cycle[i].routeCalls > 0
         /\ cycle[i].outcome = "success" => cycle[i].executeCalls > 0

C3_Witness ==
  /\ cycle[1].pc = "returned" /\ cycle[1].outcome = "failed" /\ cycle[1].executeCalls = 0
  /\ cycle[2].pc = "returned" /\ cycle[2].outcome = "rateTooLow"
  /\ Len(transactions) = 1

\* C4: a cycle that returns by a policy skip leaves the ledger as it found it:
\* it has no record in memory or in the file, and the ledger holds as many
\* records when it returns as when it was entered.
C4_SkipsLeaveLedger ==
  /\ [](\A i \in Invocations :
          cycle[i].outcome \in PolicySkips => RecordsOf(i) = {} /\ FileRecordsOf(i) = {})
  /\ [][\A i \in Invocations :
          (Returns(i) /\ cycle'[i].outcome \in PolicySkips) =>
            /\ transactions' = transactions
            /\ file' = file
            /\ Len(transactions') = cycle'[i].ledgerAtEntry]_vars

C4_Witness ==
  /\ cycle[1].outcome = "success"
  /\ cycle[2].pc = "returned" /\ cycle[2].outcome = "rateTooLow"
  /\ Len(transactions) = 1 /\ cycle[2].ledgerAtEntry = 1

\* C5 as stated: when the deadline passes first, the failed record that is
\* logged carries the legs observed until then.
C5_TimeoutKeepsLegs ==
  [][\A i \in Invocations :
       (cycle[i].pc = "executing" /\ cycle'[i].pc = "logFailed"
          /\ transactions'[Len(transactions')].error = <<"Swap execution timed out">>) =>
         /\ transactions'[Len(transactions')].status = "failed"
         /\ LET written == cycle'[i].json[1][Len(transactions')].chainTransactions
            IN  (IF written = <<>> THEN <<>> ELSE written[1]) = chainTransactions[i]]_vars

\* C6 as stated: the record logged for a missing route is failed, has the
\* sized amount as its source amount and 0 as its destination amount.
C6_NoRouteRecord ==
  \A i \in Invocations :
    (cycle[i].pc = "logFailed" /\ cycle[i].routeOut = <<>>) =>
      LET t == transactions[Len(transactions)]
      IN  /\ t.id = i
          /\ t.status = "failed"
          /\ t.fromAmount = cycle[i].swapAmount
          /\ t.toAmount = 0

\* C7: a route whose quoted amount per unit sent is below minEffectiveRate
\* ends the cycle with null after one route request and one warning, without
\* an execution call and without a record.
QuotedBelowRate(i) ==
  /\ cycle[i].routeOut # <<>>
  /\ cycle[i].routeOut[1] * cycle[i].swapAmount[2] * config.minEffectiveRate[2]
       < config.minEffectiveRate[1] * cycle[i].swapAmount[1]

C7_RateTooLow ==
  \A i \in Invocations :
    /\ QuotedBelowRate(i) =>
         /\ cycle[i].pc = "notifyRateTooLow"
         /\ cycle[i].routeCalls = 1
         /\ cycle[i].executeCalls = 0
         /\ cycle[i].notifications = <<"warning">>
         /\ RecordsOf(i) = {}
    /\ cycle[i].outcome = "rateTooLow" =>
         /\ cycle[i].returned = "null"
         /\ cycle[i].routeCalls = 1
         /\ cycle[i].executeCalls = 0
         /\ cycle[i].notifications = <<"warning">>
         /\ RecordsOf(i) = {} /\ FileRecordsOf(i) = {}

C7_Witness ==
  /\ cycle[1].pc = "returned"
  /\ cycle[1].outcome = "rateTooLow"

\* C8 as stated: the cost basis of a completed record is its source amount
\* priced at the price on the record, the one read during Sizing.
C8_CostBasisAtSizingPrice ==
  \A k \in 1..Len(transactions) :
    transactions[k].status = "completed" =>
      transactions[k].costBasisUSD =
        RMul(RDiv(transactions[k].fromAmount, R(Micro)), transactions[k].kyvePrice)

\* the sizing rule in the claims' words, on a balance B in micro units, a
\* price p and a policy P; scale is the number of native units in one priced unit
ClaimedX(P, B, scale) ==
  IF P.keepReserve > 0
    THEN (IF B - P.keepReserve * scale > 0 THEN B - P.keepReserve * scale ELSE 0)
    ELSE IF P.swapPercentage < 100 THEN (B * P.swapPercentage) \div 100 ELSE B
ClaimedMax(P, p, scale) == Norm(P.maxSwapAmountUSD * scale * p[2], p[1])
ClaimedMin(P, p, scale) == Norm(P.minSwapAmountUSD * scale * p[2], p[1])
ClaimedAmount(P, B, p, scale) == MathMin(R(ClaimedX(P, B, scale)), ClaimedMax(P, p, scale))

Percentages == {0, 1, 50, 99, 100}

ReserveExceedsBalance(i) ==
  /\ cycle[i].balance # <<>>
  /\ config.keepReserve * Micro > cycle[i].balance[1]

\* C11: a cycle whose balance is below the reserve never requests a route,
\* never executes and never logs; once the price is there sizing yields 0 and
\* the cycle returns null as below the minimum (a balance of 0 and a missing
\* price end it earlier, with null as well).
C11_ReserveAboveBalance ==
  /\ [](\A i \in Invocations :
          ReserveExceedsBalance(i) =>
            /\ cycle[i].pc \in {"notifyNoBalance", "fetchPrice", "getPrices"}
            /\ cycle[i].routeCalls = 0
            /\ cycle[i].executeCalls = 0
            /\ RecordsOf(i) = {} /\ FileRecordsOf(i) = {})
  /\ [][\A i \in Invocations :
          (ReserveExceedsBalance(i) /\ cycle'[i].pc # cycle[i].pc) =>
            /\ UNCHANGED <<transactions, file, executePromise>>
            /\ cycle'[i].routeCalls = 0 /\ cycle'[i].executeCalls = 0
            /\ cycle[i].pc = "notifyNoBalance" =>
                  cycle[i].balance = <<0>> /\ cycle'[i].outcome = "noBalance"
            /\ cycle[i].pc = "fetchPrice" => cycle'[i].pc = "getPrices"
            /\ cycle[i].pc = "getPrices" =>
                  /\ cycle'[i].pc = "returned" /\ cycle'[i].returned = "null"
                  /\ IF cycle[i].priceResult = <<>>
                       THEN cycle'[i].outcome = "noPrice"
                       ELSE /\ cycle'[i].outcome = "belowMinimum"
                            /\ SwapAmount(config, R(cycle[i].balance[1]),
                                          cycle[i].priceResult[1]) = Zero]_vars

\* at 3 USD and a reserve of one token only the balance of 400000 is below the
\* minimum: the first cycle met the reserve rule with less than the reserve
C11_Witness ==
  /\ config.keepReserve = 1
  /\ cycle[1].pc = "returned" /\ cycle[1].outcome = "belowMinimum"
  /\ cycle[2].pc = "notStarted"
  /\ cache # <<>> /\ cache[1].price = R(3)

\* the identity of a leg and of a reported transaction
KeyOf(leg) == <<leg.chainId, leg.txHash>>
KeyOfInfo(txInfo) == <<txInfo.chainID, txInfo.txHash>>
KeysOf(legs) == {KeyOf(legs[k]) : k \in 1..Len(legs)}

\* onTransactionCompleted(txInfo) runs for invocation i in this step
CompletedDelivered(i, txInfo) ==
  /\ lastEvent' # <<>>
  /\ lastEvent'[1] = "completed" /\ lastEvent'[2] = i /\ lastEvent'[3] = txInfo
  /\ lastEvent' # lastEvent \/ chainTransactions' # chainTransactions

\* C12: a completed event for a transaction already among the legs sets the
\* first leg with that chain and hash to completed, leaves every other leg and
\* the number of legs as they are; a completed event for a transaction not among
\* the legs appends one leg in state completed.
C12_CompletedEvent ==
  [][\A i \in Invocations : \A txInfo \in TxInfos :
       CompletedDelivered(i, txInfo) =>
         LET old == chainTransactions[i]
             new == chainTransactions'[i]
         IN  IF KeyOfInfo(txInfo) \in KeysOf(old)
               THEN /\ Len(new) = Len(old)
                    /\ \E k \in 1..Len(old) :
                         /\ KeyOf(old[k]) = KeyOfInfo(txInfo)
                         /\ \A m \in 1..(k - 1) : KeyOf(old[m]) # KeyOfInfo(txInfo)
                         /\ new[k].status = "completed"
                         /\ KeyOf(new[k]) = KeyOf(old[k])
                         /\ \A m \in 1..Len(old) : m # k => new[m] = old[m]
               ELSE new = Append(old, [chainId |-> txInfo.chainID, txHash |-> txInfo.txHash,
                                       status |-> "completed"])]_vars

\* the completed event for A found A as broadcast, after B
C12_Witness ==
  /\ lastEvent = <<"completed", 1, [chainID |-> "kyve-1", txHash |-> "A"], "broadcast">>
  /\ Len(chainTransactions[1]) = 2
  /\ KeyOf(chainTransactions[1][1]) = <<"8453", "B">>
  /\ chainTransactions[1][2] = [chainId |-> "kyve-1", txHash |-> "A", status |-> "completed"]

\* C13 as stated: whatever the driver has reported, the legs of an execution
\* hold at most one leg for a chain and hash, and no broadcast leg stands
\* behind a completed leg of the same chain and hash.
C13_OneLegPerKey ==
  \A i \in Invocations :
    LET legs == chainTransactions[i]
    IN  \A k \in 1..Len(legs) : \A m \in (k + 1)..Len(legs) :
          /\ KeyOf(legs[k]) # KeyOf(legs[m])
          /\ ~(/\ KeyOf(legs[k]) = KeyOf(legs[m])
                /\ legs[k].status = "completed"
                /\ legs[m].status = "broadcast")

\* a driver callback runs for invocation i in this step
EventDelivered(i) ==
  /\ lastEvent' # <<>> /\ lastEvent'[2] = i
  /\ \/ lastEvent' # lastEvent
     \/ chainTransactions' # chainTransactions
     \/ actualAmountOut' # actualAmountOut

\* the race of invocation i has been decided: its cycle is past Executing
Resolved(i) == executePromise[i] # "none" /\ cycle[i].pc # "executing"

\* C14 as stated: a driver event delivered after the cycle has resolved leaves
\* every record of the ledger as it is, by value: what the ledger queries
\* return, which is what the next write of the file contains.
C14_LateEventsLeaveRecords ==
  [][\A i \in Invocations :
       (Resolved(i) /\ EventDelivered(i)) =>
         \A k \in 1..Len(transactions) :
           Stringify(transactions)'[k] = Stringify(transactions)[k]]_vars

\* C15: the first of executeRoute and the deadline timer to settle decides
\* the cycle. The cycle leaves Executing with exactly one new record of its
\* own: completed when executeRoute resolved, failed with the timeout error when
\* the timer fired while executeRoute was pending, failed when executeRoute
\* rejected. Once the race is decided, executeRoute settling changes nothing
\* but the promise itself. A cycle in Executing always leaves it, even when
\* executeRoute never settles.
C15_Race ==
  /\ [][\A i \in Invocations :
          (cycle[i].pc = "executing" /\ cycle'[i].pc # "executing") =>
            LET t == transactions'[Len(transactions')]
            IN  /\ transactions' = Append(transactions, t)
                /\ t.id = i
                /\ executePromise'[i] = "resolved" =>
                      t.status = "completed" /\ cycle'[i].pc = "logSuccess"
                /\ executePromise'[i] = "pending" =>
                      /\ t.status = "failed" /\ cycle'[i].pc = "logFailed"
                      /\ t.error = <<"Swap execution timed out">>
                /\ executePromise'[i] = "rejected" =>
                      t.status = "failed" /\ cycle'[i].pc = "logFailed"]_vars
  /\ [][\A i \in Invocations :
          (Resolved(i) /\ executePromise'[i] # executePromise[i]) =>
            UNCHANGED <<cycle, transactions, file, isRunning, chainTransactions,
                        actualAmountOut>>]_vars
  /\ [](\A i \in Invocations :
          cycle[i].outcome = "failed" =>
            \A k \in RecordsOf(i) : transactions[k].status = "failed")
  /\ \A i \in Invocations : (cycle[i].pc = "executing") ~> (cycle[i].pc # "executing")

\* the timer decided the cycle and executeRoute resolved afterwards
C15_Witness ==
  /\ executePromise[1] = "resolved"
  /\ cycle[1].pc = "returned" /\ cycle[1].outcome = "failed"
  /\ Len(transactions) = 1
  /\ transactions[1].status = "failed"
  /\ transactions[1].error = <<"Swap execution timed out">>

\* the cycle of invocation i logs its completed record in this step
LogsCompleted(i) == cycle[i].pc # "logSuccess" /\ cycle'[i].pc = "logSuccess"

\* the record appended in this step
Logged == transactions'[Len(transactions')]

\* C16: the destination amount of a completed record is the amount of the
\* latest tracking event that carried a settled amount before the result came,
\* and the amount of the route when no such event came (always so in a dry run).
C16_SettledAmount ==
  /\ [][\A i \in Invocations :
          IF lastEvent' # <<>> /\ lastEvent'[1] = "tracked" /\ lastEvent'[2] = i
               /\ (lastEvent' # lastEvent \/ actualAmountOut' # actualAmountOut)
            THEN actualAmountOut'[i] = <<lastEvent'[3]>>
            ELSE actualAmountOut'[i] = actualAmountOut[i]]_vars
  /\ [][\A i \in Invocations :
          LogsCompleted(i) =>
            /\ Logged.id = i /\ Logged.status = "completed"
            /\ Logged.toAmount =
                 IF actualAmountOut[i] # <<>> THEN actualAmountOut[i][1]
                 ELSE cycle'[i].routeOut[1]
            /\ config.dryRun => Logged.toAmount = cycle'[i].routeOut[1]]_vars

\* the route promised 3000000, the last tracking event said 2950000
C16_Witness ==
  /\ cycle[1].pc = "logSuccess"
  /\ cycle[1].routeOut = <<3000000>>
  /\ lastEvent = <<"tracked", 1, 2950000>>
  /\ transactions[1].status = "completed"
  /\ transactions[1].toAmount = 2950000

\* C17: the effective rate of every completed record is its destination
\* amount over its source amount; with a settled amount on the record it is not
\* the rate of the rate check.
C17_EffectiveRate ==
  /\ \A k \in 1..Len(transactions) :
       transactions[k].status = "completed" =>
         /\ transactions[k].fromAmount # Zero
         /\ transactions[k].effectiveRate =
              RDiv(R(transactions[k].toAmount), transactions[k].fromAmount)
  /\ \A i \in Invocations :
       (cycle[i].pc = "logSuccess" /\ transactions[Len(transactions)].toAmount # cycle[i].routeOut[1]) =>
         transactions[Len(transactions)].effectiveRate #
           RDiv(R(cycle[i].routeOut[1]), cycle[i].swapAmount)

C17_Witness ==
  /\ cycle[1].pc = "logSuccess"
  /\ cycle[1].routeOut = <<3000000>>
  /\ cycle[1].swapAmount = R(2000000)
  /\ transactions[1].fromAmount = R(2000000)
  /\ transactions[1].toAmount = 2900000
  /\ transactions[1].effectiveRate = <<29, 20>>

\* C18: the transaction hash of a completed record is the hash of the first
\* leg the driver had reported when the result came, and without a leg the
\* sentinel PENDING (DRY_RUN_TX in a dry run), never the empty string.
C18_PrimaryHash ==
  [][\A i \in Invocations :
       LogsCompleted(i) =>
         LET legs == chainTransactions[i]
         IN  /\ Logged.txHash # ""
             /\ Logged.txHash =
                  IF Len(legs) > 0 THEN legs[1].txHash
                  ELSE IF config.dryRun THEN "DRY_RUN_TX" ELSE "PENDING"]_vars

\* B was reported before A
C18_Witness ==
  /\ cycle[1].pc = "logSuccess"
  /\ Len(chainTransactions[1]) = 2
  /\ chainTransactions[1][1].txHash = "B"
  /\ chainTransactions[1][2].txHash = "A"
  /\ transactions[1].txHash = "B"

\* C19: every record in the ledger, in memory and in the file, is completed
\* or failed.
C19_NoPendingRecord ==
  /\ \A k \in 1..Len(transactions) : transactions[k].status \in {"completed", "failed"}
  /\ \A k \in 1..Len(file) : file[k].status \in {"completed", "failed"}

C19_Witness ==
  /\ Len(file) = 2
  /\ file[1].status = "failed"
  /\ file[2].status = "completed"
  /\ cycle[2].pc = "returned"

\* the messages of the three attempt failures
AttemptFailures == {"No route found for swap", "Swap execution timed out", "execution error"}

\* C20: a cycle that finds no route, runs into the deadline or gets an error
\* from the driver appends one failed record carrying the error, then sends one
\* error notification and returns the record.
C20_AttemptFailure ==
  /\ [][\A i \in Invocations :
          (cycle[i].pc \in {"getRoute", "executing"} /\ cycle'[i].pc # cycle[i].pc) =>
            IF \/ cycle[i].pc = "getRoute" /\ cycle'[i].routeOut = <<>>
               \/ cycle[i].pc = "executing" /\ executePromise'[i] # "resolved"
              THEN /\ cycle'[i].pc = "logFailed"
                   /\ transactions' = Append(transactions, Logged)
                   /\ Logged.id = i /\ Logged.status = "failed"
                   /\ Logged.error # <<>> /\ Logged.error[1] \in AttemptFailures
              ELSE cycle'[i].pc # "logFailed"]_vars
  /\ [](\A i \in Invocations :
          /\ cycle[i].pc = "logFailed" => cycle[i].notifications = <<>>
          /\ cycle[i].pc = "notifyFailed" => cycle[i].notifications = <<"error">>
          /\ cycle[i].pc \in {"logFailed", "notifyFailed"} =>
                \E k \in RecordsOf(i) : transactions[k].status = "failed"
          /\ (cycle[i].pc = "returned" /\ cycle[i].outcome = "failed") =>
                /\ cycle[i].returned = "transaction"
                /\ cycle[i].notifications = <<"error">>
                /\ Cardinality(RecordsOf(i)) = 1
                /\ \A k \in RecordsOf(i) :
                     /\ transactions[k].status = "failed"
                     /\ transactions[k].error[1] \in AttemptFailures)
  /\ [][\A i \in Invocations :
          (cycle[i].pc \in {"logFailed", "notifyFailed"} /\ cycle'[i].pc # cycle[i].pc) =>
            IF cycle[i].pc = "logFailed"
              THEN cycle'[i].pc = "notifyFailed"
              ELSE cycle'[i].pc = "returned" /\ cycle'[i].outcome = "failed"]_vars

C20_Witness ==
  /\ cycle[1].pc = "returned" /\ cycle[1].outcome = "failed"
  /\ cycle[1].returned = "transaction"
  /\ cycle[1].notifications = <<"error">>
  /\ transactions[1].error = <<"execution error">>
  /\ cycle[2].pc = "returned" /\ cycle[2].outcome = "failed"
  /\ transactions[2].error = <<"No route found for swap">>

\* C21: a record of the ledger, in memory or in the file, carries an error
\* exactly when its status is failed.
C21_ErrorIffFailed ==
  /\ \A k \in 1..Len(transactions) :
       (transactions[k].error # <<>>) <=> (transactions[k].status = "failed")
  /\ \A k \in 1..Len(file) :
       (file[k].error # <<>>) <=> (file[k].status = "failed")

C21_Witness ==
  /\ Len(file) = 2
  /\ file[1].status = "completed" /\ file[1].error = <<>>
  /\ file[2].status = "failed" /\ file[2].error = <<"Swap execution timed out">>

\* C22 as stated: a cycle that announces a completed swap has its record in
\* the file; when the write fails no success is announced.
C22_WriteFailureSurfaced ==
  \A i \in Invocations :
    (cycle[i].pc = "notifySuccess" \/ cycle[i].outcome = "success") =>
      FileRecordsOf(i) # {}

\* C24 as stated: an invocation that started a cycle has called
\* sendNotification by the time it returns.
C24_EveryOutcomeNotified ==
  \A i \in Invocations :
    (cycle[i].pc = "returned" /\ cycle[i].outcome # "alreadyRunning") =>
      cycle[i].notifications # <<>>

\* the value and the outcome a cycle returns with once its notification has
\* settled
ReturnedAfter(pc) ==
  CASE pc = "notifyNoBalance" -> <<"null", "noBalance">>
    [] pc = "notifyRateTooLow" -> <<"null", "rateTooLow">>
    [] pc = "notifySuccess" -> <<"transaction", "success">>
    [] OTHER -> <<"transaction", "failed">>

Notifying(i) ==
  cycle[i].pc \in {"notifyNoBalance", "notifyRateTooLow", "notifySuccess", "notifyFailed"}

\* C23: a failed delivery changes nothing but the log, and the step after
\* sendNotification is the same whether the requests were delivered or one of
\* them failed: it returns the value of the cycle's outcome, releases the busy
\* flag and leaves the ledger, in memory and in the file, as it was.
C23_DeliveryLeavesOutcome ==
  [][\A i \in Invocations :
       (Notifying(i) /\ cycle'[i] # cycle[i]) =>
         /\ UNCHANGED <<transactions, file>>
         /\ \/ /\ cycle[i].delivery = <<>>
               /\ cycle'[i] = [cycle[i] EXCEPT !.delivery = <<FALSE>>]
               /\ UNCHANGED isRunning
            \/ /\ cycle'[i].pc = "returned"
               /\ <<cycle'[i].returned, cycle'[i].outcome>> = ReturnedAfter(cycle[i].pc)
               /\ cycle'[i].notifications = cycle[i].notifications
               /\ isRunning' = FALSE]_vars

C23_Witness ==
  /\ cycle[1].pc = "notifySuccess" /\ cycle[1].delivery = <<FALSE>>
  /\ RecordsOf(1) # {} /\ isRunning

\* C25 as stated: the file only ever grows at its end, and once
\* loadTransactions has finished the all-records query returns every record of
\* the file, by value and in the order of the file.
C25_AppendOnlyDurable ==
  [][/\ \A k \in 1..Len(file) :
          Len(file') >= k /\ file'[k] = file[k]
     /\ ~loading' =>
          \A k \in 1..Len(file') :
            Len(transactions') >= k /\ Stringify(transactions)'[k] = file'[k]]_vars

\* a step that replaces data/swap_history.csv: exportToCSV has run (a row that
\* logTransaction appends is in the format of the history)
Exported ==
  /\ csv' # csv
  /\ csv' = <<>> \/ csv'[Len(csv')].format = "export"

\* the positions of the completed records of the ledger
CompletedAt == {k \in 1..Len(transactions) : transactions[k].status = "completed"}

\* C26: an export leaves exactly one row for each completed record of the
\* ledger, in the order of the ledger, and no row for any other record.
C26_ExportsCompleted ==
  [][Exported =>
       /\ Len(csv') = Cardinality(CompletedAt)
       /\ \A k \in CompletedAt :
            \E r \in 1..Len(csv') :
              /\ csv'[r].format = "export" /\ csv'[r].id = transactions[k].id
              /\ r = Cardinality({m \in CompletedAt : m <= k})
       /\ \A r \in 1..Len(csv') :
            \E k \in CompletedAt : csv'[r].id = transactions[k].id]_vars

C26_Witness ==
  /\ Len(transactions) = 2
  /\ transactions[1].status = "failed" /\ transactions[2].status = "completed"
  /\ csv = <<[format |-> "export", id |-> 2, status |-> "completed"]>>

\* C27 as stated: data/swap_history.csv holds no row that comes from a failed
\* record.
C27_NoFailedRow ==
  \A r \in 1..Len(csv) : csv[r].status # "failed"

\* the sum of the effective rates of the records at the positions S
RECURSIVE SumOfRates(_)
SumOfRates(S) ==
  IF S = {} THEN Zero
  ELSE LET k == CHOOSE k \in S : TRUE
       IN  RAdd(transactions[k].effectiveRate, SumOfRates(S \ {k}))

\* C28: the average rate that getStatus reports is 0 when the ledger has no
\* completed record and otherwise the sum of the effective rates of the
\* completed records divided by their number; it is always a number.
C28_AverageRate ==
  [][statistics' # statistics =>
       LET averageRate == statistics'[1].averageRate
       IN  /\ averageRate[2] > 0
           /\ IF CompletedAt = {}
                THEN averageRate = Zero
                ELSE RMul(averageRate, R(Cardinality(CompletedAt))) = SumOfRates(CompletedAt)]_vars

C28_Witness ==
  /\ statistics # <<>>
  /\ statistics[1].totalTransactions = 2
  /\ statistics[1].successfulTransactions = 1
  /\ Len(transactions) = 2
  /\ transactions[1].status = "failed" /\ transactions[2].status = "completed"
  /\ statistics[1].averageRate = transactions[2].effectiveRate
  /\ statistics[1].averageRate # Zero

ReadsCache(c) == calls[c].pc = "notCalled" /\ calls'[c].pc # "notCalled"

\* a call of getPrice returns a fetched price in this step
ReturnsFetched(c) ==
  /\ calls[c].pc \in {"primary", "backup"}
  /\ calls'[c].pc = "returned" /\ calls'[c].result # <<>>

\* C30: a read returns the cached price only if the entry is no older than
\* cacheDuration; a read that finds an older entry deletes it and sends a
\* request; and the entry changes in no other way than by such a deletion or
\* by a fetch that returns a price, which stores that price with the time of
\* its arrival.
C30_LazyExpiry ==
  [][/\ \A c \in Callers :
          ReadsCache(c) =>
            /\ (calls'[c].pc = "returned" /\ calls'[c].result # <<>>) =>
                 /\ cache # <<>> /\ now - cache[1].timestamp <= config.cacheDuration
                 /\ calls'[c].result = <<cache[1].price>>
            /\ (cache # <<>> /\ now - cache[1].timestamp > config.cacheDuration) =>
                 cache' = <<>> /\ calls'[c].pc = "primary"
     /\ cache' # cache =>
          \/ /\ cache' = <<>>
             /\ now - cache[1].timestamp > config.cacheDuration
             /\ \E c \in Callers : ReadsCache(c)
          \/ /\ cache' # <<>>
             /\ \E c \in Callers :
                  ReturnsFetched(c) /\ cache' = <<[price |-> calls'[c].result[1], timestamp |-> now]>>]_vars

C30_Witness ==
  /\ calls[1].pc = "returned" /\ calls[1].result # <<>>
  /\ calls[2].pc = "primary"
  /\ cache = <<>> /\ now = 2

\* a call of getPrice has a request to a price source in flight
Fetching(c) == calls[c].pc \in {"primary", "backup"}

\* C31 as stated: calls of getPrice for the symbol that overlap have at most
\* one request to a price source in flight between them, and calls that have
\* returned a price while the clock stood still returned the same price.
C31_OneFetchPerWindow ==
  \A c, d \in Callers :
    c # d =>
      /\ ~(Fetching(c) /\ Fetching(d))
      /\ (/\ now = 0
          /\ calls[c].pc = "returned" /\ calls[c].result # <<>>
          /\ calls[d].pc = "returned" /\ calls[d].result # <<>>)
           => calls[c].result = calls[d].result

\* C32 as stated: whenever a cycle runs, the policy has minUSD <= maxUSD, the
\* percentage in 0..100 and a positive minimum rate.
C32_PolicyValid ==
  \A i \in Invocations :
    InCycle(i) =>
      /\ config.minSwapAmountUSD <= config.maxSwapAmountUSD
      /\ config.swapPercentage >= 0 /\ config.swapPercentage <= 100
      /\ RLt(Zero, config.minEffectiveRate)

\* the USD value of an amount of micro units at a price per whole token
ValueUSD(amount, price) == RMul(RDiv(amount, R(Micro)), price)

\* C33: the amount of a route request is at most the balance the cycle read,
\* its value at the price of the sizing lies between the minimum and the
\* maximum of the policy, and under a reserve the balance left over is at least
\* the reserve.
C33_TradeSizeLimits ==
  \A i \in Invocations :
    cycle[i].amountIn # <<>> =>
      LET amount  == cycle[i].amountIn[1]
          balance == R(cycle[i].balance[1])
      IN  /\ RLe(amount, balance)
          /\ RLe(R(config.minSwapAmountUSD), ValueUSD(amount, cycle[i].kyvePrice))
          /\ RLe(ValueUSD(amount, cycle[i].kyvePrice), R(config.maxSwapAmountUSD))
          /\ config.keepReserve > 0 =>
               RLe(R(config.keepReserve * Micro), RSub(balance, amount))

C33_Witness ==
  /\ cycle[1].pc = "getRoute" /\ cycle[1].routeCalls = 1
  /\ config.keepReserve = 1
  /\ cycle[1].balance = <<3000000>> /\ cycle[1].kyvePrice = R(3)
  /\ RLt(cycle[1].amountIn[1], R(2000000))

\* C40 as stated: the amount of the route request, and with it the amount a
\* completed record stores, is a whole number of micro units.
C40_WholeMicroUnits ==
  /\ \A i \in Invocations :
       cycle[i].amountIn # <<>> => cycle[i].amountIn[1] = MathFloor(cycle[i].amountIn[1])
  /\ \A k \in 1..Len(transactions) :
       transactions[k].status = "completed" =>
         transactions[k].fromAmount = MathFloor(transactions[k].fromAmount)

\* C34: every identifier occurs at most once in the ledger, in memory and in
\* the file: no cycle has a completed and a failed record, also when the
\* delivery of its notification fails after the append.
C34_IdentifierOnce ==
  /\ \A k, m \in 1..Len(transactions) :
       transactions[k].id = transactions[m].id => k = m
  /\ \A k, m \in 1..Len(file) :
       file[k].id = file[m].id => k = m

C34_Witness ==
  /\ cycle[1].pc = "returned" /\ cycle[1].outcome = "success"
  /\ cycle[2].pc = "notifySuccess" /\ cycle[2].delivery = <<FALSE>>
  /\ Len(transactions) = 2 /\ Len(file) = 2
  /\ transactions[1].id = 1 /\ transactions[2].id = 2

\* C37: a cycle whose price lookup came back without a price returns null at
\* once as it leaves the lookup: it has made no route request and no call of
\* the Execution Driver, the ledger is as it was in memory and in the file, and
\* the busy flag is released.
C37_PriceUnavailable ==
  [][\A i \in Invocations :
       (cycle[i].pc = "getPrices" /\ cycle[i].priceResult = <<>> /\ cycle'[i] # cycle[i]) =>
         /\ cycle'[i].pc = "returned" /\ cycle'[i].returned = "null"
         /\ cycle'[i].outcome = "noPrice"
         /\ cycle'[i].routeCalls = 0 /\ cycle'[i].executeCalls = 0
         /\ RecordsOf(i)' = {} /\ FileRecordsOf(i)' = {}
         /\ UNCHANGED <<transactions, file, executePromise>>
         /\ isRunning' = FALSE]_vars

C37_Witness ==
  /\ cycle[1].pc = "returned" /\ cycle[1].outcome = "success"
  /\ cycle[2].pc = "returned" /\ cycle[2].outcome = "noPrice"
  /\ cycle[2].returned = "null" /\ cycle[2].routeCalls = 0
  /\ Len(transactions) = 1 /\ ~isRunning

\* the cycle sends a notification of this kind in this step
Announces(i, kind) ==
  /\ Len(cycle'[i].notifications) = Len(cycle[i].notifications) + 1
  /\ cycle'[i].notifications[Len(cycle'[i].notifications)] = kind

\* the cycle has a record of this status in the ledger
HasRecord(i, status) == \E k \in RecordsOf(i) : transactions[k].status = status

\* C38: when a cycle sends its success notification the ledger already holds
\* its completed record, when it sends its error notification the ledger
\* already holds its failed record, and no cycle has sent both.
C38_RecordedBeforeAnnounced ==
  /\ [][\A i \in Invocations :
          /\ Announces(i, "success") => HasRecord(i, "completed")
          /\ Announces(i, "error") => HasRecord(i, "failed")]_vars
  /\ [](\A i \in Invocations :
          ~(/\ \E n \in 1..Len(cycle[i].notifications) : cycle[i].notifications[n] = "success"
            /\ \E n \in 1..Len(cycle[i].notifications) : cycle[i].notifications[n] = "error"))

C38_Witness ==
  /\ cycle[1].pc = "returned" /\ cycle[1].notifications = <<"success">>
  /\ cycle[2].pc = "notifyFailed" /\ cycle[2].notifications = <<"error">>
  /\ Len(transactions) = 2
  /\ transactions[1].status = "completed" /\ transactions[2].status = "failed"

\* C35: the load that the constructor starts loses nothing: every record that
\* is in the list in memory when loadTransactions finishes is still in it
\* afterwards.
C35_LoadKeepsRecords ==
  [][(loading /\ ~loading') =>
       \A k \in 1..Len(transactions) :
         \E m \in 1..Len(transactions') : transactions'[m].id = transactions[k].id]_vars

\* C36: once loadTransactions has failed on a file that exists, no write of
\* the ledger leaves the file without a record that it held before the write.
C36_FailedLoadKeepsFile ==
  [][loadFailed =>
       \A k \in 1..Len(file) :
         \E m \in 1..Len(file') : file'[m].id = file[k].id]_vars

\* the process exits in this step while a cycle is under way
Exits == \E i \in Invocations : InCycle(i) /\ cycle'[i].pc = "exited"

\* C39: when the process exits, every cycle that has called the Execution
\* Driver has its record in the ledger file.
C39_RecordedBeforeExit ==
  [][Exits =>
       \A i \in Invocations :
         cycle[i].executeCalls > 0 => FileRecordsOf(i) # {}]_vars

====
